---- MODULE Spec2Model ----
\* The tau-hybrid solver of GillesPy2 (c_base/tau_hybrid_cpp_solver/TauHybridCSolver.cpp)
\* as a state machine: one invocation of TauHybridCSolver after another, each running
\* its trajectories, each trajectory its step loop (integrate, reconcile, emit).
\* PureSpec runs the right-hand side f and the firing loop on their own, on inputs
\* drawn from bounded sets.
\*
\* Reals are fixed point: a time is a number of 1/TimeResolution units, so that the
\* truncation of "int save_time; save_time += increment" is computed, not assumed.
\* Concentrations and reaction offsets are integers standing for reals.
EXTENDS Integers, Sequences, FiniteSets, TLC

\* ---------------------------------------------------------------- bounds
MaxInvocations == 1
MaxTrajectories == 2
MaxTimesteps == 3
\* Times are multiples of 1/TimeResolution.
TimeResolution == 2
\* The report spacings tried, in 1/TimeResolution units: up to MaxIncrement.
MaxIncrement == 3
\* The largest value a reaction offset is seen to take after an integration.
MaxOffset == 0
\* A cell's write count is kept up to WriteCap ("WriteCap or more").
WriteCap == 2
\* The concentrations f and the firing loop are run on are 0 .. MaxConcentration.
MaxConcentration == 2
\* The weights of a conservation law are in -MaxWeight .. MaxWeight.
MaxWeight == 2

\* ---------------------------------------------------------------- the model simulated
\* A small reversible dimerization 2A <-> B (Model, model.h:56-63).
SpeciesNames == <<"A", "B">>
InitialPopulations == <<2, 0>>
ReactionNames == <<"dimerize", "split">>
SpeciesChanges == << <<-2, 1>>, <<2, -1>> >>

number_species == Len(SpeciesNames)
Species == 0 .. number_species - 1
initial_population(s) == InitialPopulations[s + 1]
\* Reaction.species_change of reaction r, species s (r within the model's reactions).
species_change(r, s) == SpeciesChanges[r + 1][s + 1]

\* log(0), the logarithm of the smallest value uniform(rng) yields: minus infinity,
\* below every other value.
NegInf == 0 - 1000
\* The sum of two reals either of which may be minus infinity.
Plus(a, b) == IF a = NegInf \/ b = NegInf THEN NegInf ELSE a + b
\* The finite values of log(uniform(rng)), for uniform(rng) in (0, 1): one stands for all.
FiniteLogValues == {-1}
\* log(uniform(rng)): std::uniform_real_distribution<double>(0, 1) yields a value
\* in [0, 1), so its logarithm is negative, and minus infinity when the value is 0.
LogValues == FiniteLogValues \cup {NegInf}
\* What a cell outside the allocation of y0 may hold when it is read.
OffsetValues == FiniteLogValues \cup (0 .. MaxOffset)
MaxDraws == MaxOffset + 1

VARIABLES
    pc,                  \* where the solver is
    invocation,          \* how many times TauHybridCSolver was called
    interrupted,         \* Gillespy::interrupted
    number_reactions,    \* simulation->model->number_reactions
    number_timesteps,    \* simulation->number_timesteps
    number_trajectories, \* simulation->number_trajectories
    increment,           \* timeline[1] - timeline[0]
    current_time,        \* simulation->current_time
    traj,                \* the trajectory loop's index
    current_state,       \* std::vector<double> current_state
    y0,                  \* the integrator's vector, indices 0 .. rxn_offset_boundary - 1
    flag,                \* what CVode returned last
    next_time,
    tau_step,
    save_time,
    trajectoriesODE,     \* simulation->trajectoriesODE[traj][timestep][species]
    writes,              \* how often each cell of trajectoriesODE was written
    out_of_range,        \* a write to trajectoriesODE fell outside the buffer
    step_start,          \* not in the code: y0 as the integration step in progress found it
    interrupt_passed,    \* not in the code: the flag was set when this trajectory's
                         \* last step went from reconciliation to emission
    resources,           \* what the trajectory's body allocated: each "none", "held",
                         \* "freed", or in error ("leaked", "double_free")
    trajectoriesHYBRID,  \* simulation->trajectoriesHYBRID[traj][timestep][species]
    random_seed,         \* simulation->random_seed
    rng,                 \* std::mt19937_64 rng: the seed it was constructed with and
                         \* how many values were drawn from it
    f_in,                \* the last direct call of f: the memory at Y and ydot before
    f_out,               \* ... and after
    fire_in,             \* the last direct run of the firing loop: what it started
    fire_out             \* from, and what it ended with

vars == <<pc, invocation, interrupted, number_reactions, number_timesteps,
          number_trajectories, increment, current_time, traj, current_state, y0,
          flag, next_time, tau_step, save_time, trajectoriesODE, writes, out_of_range,
          step_start, interrupt_passed, resources, trajectoriesHYBRID, random_seed,
          rng, f_in, f_out, fire_in, fire_out>>

\* The right-hand side and the firing loop run on their own (PureSpec).
pureVars == <<f_in, f_out, fire_in, fire_out>>
\* Fields of the Simulation the solver has no statement for.
unusedVars == <<trajectoriesHYBRID, random_seed>>

simulationVars == <<number_reactions, number_timesteps, number_trajectories, increment>>

\* simulation->end_time: the last point of the timeline, timeline[k] = k * increment.
end_time == (number_timesteps - 1) * increment

rxn_offset_boundary == number_species + number_reactions
PackedIndex == 0 .. rxn_offset_boundary - 1

\* y0 while no N_Vector is allocated.
NoVector == <<>>
\* f_in, f_out, fire_in, fire_out while the solver runs.
NoCall == <<>>

Sign(x) == IF x > 0 THEN 1 ELSE IF x < 0 THEN -1 ELSE 0
Max(a, b) == IF a >= b THEN a ELSE b


\* ---------------------------------------------------------------- propensities
\* IPropensityFunction::ODEEvaluate (model.h:70) is generated per model; here the
\* mass-action rates of the dimerization, never negative.
ODEEvaluate(r, S) ==
    IF r = 0 THEN Max(0, (S[0] * (S[0] - 1)) \div 2) ELSE Max(0, S[1])

\* ---------------------------------------------------------------- f, the right-hand side
\* The memory f can touch through Y: f indexes up to 2 * number_species + number_reactions.
MemIndex == 0 .. (2 * number_species + number_reactions - 1)

\* (-1 + 2 * (species_change > 0)) for a non-zero change, nothing for a zero one.
StoichDirection(r, s) ==
    IF species_change(r, s) = 0 THEN 0
    ELSE -1 + 2 * (IF species_change(r, s) > 0 THEN 1 ELSE 0)

\* The loop over reactions of f from reaction rxn_i on: st = [Y, dydt].
RECURSIVE fReactions(_, _, _)
fReactions(rxn_i, concentrations, st) ==
    IF rxn_i >= number_reactions THEN st
    ELSE LET rxn_offset_i == rxn_i + number_species
             propensity == ODEEvaluate(rxn_i, concentrations)
             \* rxn_offsets = &Y[num_species]; rxn_offsets[rxn_offset_i] = ...
             target == number_species + rxn_offset_i
             Y1 == IF target \in DOMAIN st.Y
                   THEN [st.Y EXCEPT ![target] = st.Y[rxn_offset_i] + propensity]
                   ELSE st.Y
             d1 == [s \in Species |->
                      st.dydt[s] + propensity * StoichDirection(rxn_i, s)]
         IN fReactions(rxn_i + 1, concentrations, [Y |-> Y1, dydt |-> d1])

\* f(t, y, ydot, user_data): Y is the memory at y's data pointer, dydt the first
\* number_species entries of ydot.
f(Y) ==
    LET concentrations == [s \in Species |-> Y[s]]
    IN fReactions(0, concentrations, [Y |-> Y, dydt |-> [s \in Species |-> 0]])

\* ---------------------------------------------------------------- resources
\* What the body of the trajectory loop allocates: new UserData, N_VNew_Serial,
\* CVodeCreate, SUNLinSol_SPGMR, new int[num_species].
ResourceNames == {"data", "y0", "cvode_mem", "LS", "population_changes"}
NoResources == [r \in ResourceNames |-> "none"]
ResourceErrors == {"leaked", "double_free"}

\* The allocations at the top of the trajectory loop's body: a pointer that still
\* holds an allocation loses it.
Acquire(res) ==
    [r \in ResourceNames |->
        IF res[r] \in ResourceErrors THEN res[r]
        ELSE IF res[r] = "held" THEN "leaked" ELSE "held"]

\* The clean-up without SUNLinSolFree_SPGMR(LS).
CleanUpWithoutLinearSolver(res) ==
    [r \in ResourceNames |->
        IF res[r] \in ResourceErrors \/ r = "LS" THEN res[r]
        ELSE IF res[r] = "held" THEN "freed" ELSE "double_free"]

\* N_VDestroy_Serial(y0); CVodeFree(&cvode_mem); SUNLinSolFree_SPGMR(LS);
\* delete data; delete[] population_changes;
CleanUp(res) ==
    [r \in ResourceNames |->
        IF res[r] \in ResourceErrors THEN res[r]
        ELSE IF res[r] = "held" THEN "freed" ELSE "double_free"]

\* ---------------------------------------------------------------- the random engine
\* The seed of a default-constructed std::mt19937_64.
DefaultSeed == 5489
\* std::mt19937_64 rng; constructed without a seed argument.
NewEngine == [seed |-> DefaultSeed, drawn |-> 0]
\* The values of simulation->random_seed the caller sets: zero and a non-zero one.
Seeds == {0, 1}

\* ---------------------------------------------------------------- hybrid modes
CONTINUOUS == 0
DISCRETE == 1
DYNAMIC == 2
\* Species.user_mode of the model's species.
UserModes == <<DISCRETE, CONTINUOUS>>
user_mode(s) == UserModes[s + 1]

\* ---------------------------------------------------------------- the solver
\* Before the first call, but for the model loaded.
InitSolver ==
    /\ pc = "idle"
    /\ invocation = 0
    /\ interrupted = FALSE
    /\ number_timesteps = 2
    /\ number_trajectories = 1
    /\ increment = TimeResolution
    /\ current_time = 0
    /\ traj = 0
    /\ current_state = [s \in Species |-> 0]
    /\ y0 = NoVector
    /\ flag = "CV_SUCCESS"
    /\ next_time = 0
    /\ tau_step = 0
    /\ save_time = 0
    /\ trajectoriesODE = [t \in 0 .. 0 |-> [k \in 0 .. 1 |-> [s \in Species |-> 0]]]
    /\ writes = [t \in 0 .. 0 |-> [k \in 0 .. 1 |-> [s \in Species |-> 0]]]
    /\ out_of_range = FALSE
    /\ step_start = NoVector
    /\ interrupt_passed = FALSE
    /\ resources = NoResources
    /\ trajectoriesHYBRID = [t \in 0 .. 0 |-> [k \in 0 .. 1 |-> [s \in Species |-> 0]]]
    /\ random_seed = 0
    /\ rng = NewEngine
    /\ f_in = NoCall
    /\ f_out = NoCall
    /\ fire_in = NoCall
    /\ fire_out = NoCall

Init ==
    /\ InitSolver
    /\ number_reactions = 0

\* void signalHandler(int signum), installed by signal(SIGINT, signalHandler).
signalHandler ==
    /\ invocation > 0
    /\ ~interrupted
    /\ interrupted' = TRUE
    /\ UNCHANGED <<pc, invocation, simulationVars, current_time, traj, current_state,
                   y0, flag, next_time, tau_step, save_time, trajectoriesODE, writes,
                   out_of_range, step_start,
                   interrupt_passed, resources, rng, unusedVars, pureVars>>

CountUp(n) == IF n < WriteCap THEN n + 1 ELSE n

\* TauHybridCSolver, from its entry to the head of the trajectory loop. The caller
\* hands over a Simulation over the model: zeroed buffers of number_trajectories x
\* number_timesteps x number_species cells, a uniform timeline and current_time = 0.
Call ==
    /\ pc \in {"idle", "returned"}
    /\ invocation < MaxInvocations
    /\ invocation' = invocation + 1
    /\ \E nr \in {0, Len(ReactionNames)}, nt \in 2 .. MaxTimesteps,
          ntraj \in 1 .. MaxTrajectories, inc \in 1 .. MaxIncrement, seed \in Seeds :
          /\ number_reactions' = nr
          /\ random_seed' = seed
          /\ trajectoriesHYBRID' =
                [t \in 0 .. ntraj - 1 |-> [k \in 0 .. nt - 1 |-> [s \in Species |-> 0]]]
          /\ number_timesteps' = nt
          /\ number_trajectories' = ntraj
          /\ increment' = inc
          /\ trajectoriesODE' =
                [t \in 0 .. ntraj - 1 |-> [k \in 0 .. nt - 1 |->
                    [s \in Species |->
                        IF t = 0 /\ k = 0 THEN initial_population(s) ELSE 0]]]
          /\ writes' =
                [t \in 0 .. ntraj - 1 |-> [k \in 0 .. nt - 1 |->
                    [s \in Species |-> IF t = 0 /\ k = 0 THEN 1 ELSE 0]]]
    /\ current_time' = 0
    /\ out_of_range' = FALSE
    /\ current_state' = [s \in Species |-> initial_population(s)]
    /\ traj' = 0
    /\ pc' = "trajectory"
    \* the locals of the trajectory loop's body do not exist yet
    /\ y0' = NoVector
    /\ flag' = "CV_SUCCESS"
    /\ next_time' = 0
    /\ tau_step' = 0
    /\ save_time' = 0
    /\ interrupt_passed' = FALSE
    /\ resources' = NoResources
    \* std::mt19937_64 rng;
    /\ rng' = NewEngine
    /\ UNCHANGED <<interrupted, step_start, pureVars>>

\* for (traj = 0; traj < num_trajectories; traj++) { if (interrupted) break; ... }
\* up to the head of the step loop.
StartTrajectory ==
    /\ pc = "trajectory"
    /\ traj < number_trajectories
    /\ ~interrupted
    /\ current_state' = [s \in Species |-> initial_population(s)]
    /\ \E draws \in [number_species .. rxn_offset_boundary - 1 -> LogValues] :
          y0' = [i \in PackedIndex |->
                    IF i < number_species THEN initial_population(i) ELSE draws[i]]
    /\ flag' = "CV_SUCCESS"
    /\ tau_step' = increment
    /\ save_time' = 0
    /\ pc' = "step"
    /\ rng' = [rng EXCEPT !.drawn = @ + number_reactions]
    /\ resources' = Acquire(resources)
    /\ interrupt_passed' = FALSE
    /\ UNCHANGED <<invocation, interrupted, simulationVars, current_time, traj,
                   next_time, trajectoriesODE, writes, out_of_range, step_start,
                   unusedVars, pureVars>>

\* The trajectory loop ends: all trajectories were run, or the interrupt flag is set.
Return ==
    /\ pc = "trajectory"
    /\ ~(traj < number_trajectories /\ ~interrupted)
    /\ pc' = "returned"
    /\ UNCHANGED <<invocation, interrupted, simulationVars, current_time, traj,
                   current_state, y0, flag, next_time, tau_step, save_time,
                   trajectoriesODE, writes, out_of_range, step_start,
                   interrupt_passed, resources, rng, unusedVars, pureVars>>

\* ---------------------------------------------------------------- one step
\* What CVode leaves in the concentrations: each moves along the derivative f gives
\* for it, by an amount that depends on the tolerances and is left open (none or one
\* unit); a concentration with derivative 0 stays.
Advanced(y) ==
    LET dydt == f(y).dydt
        reach(s) == {y[s], y[s] + Sign(dydt[s])}
    IN { c \in [Species -> UNION {reach(s) : s \in Species}] :
            \A s \in Species : c[s] \in reach(s) }

\* The head of the step loop and the integration step:
\*   while (current_time < end_time) { next_time = current_time + tau_step;
\*     flag = CVode(cvode_mem, next_time, y0, &next_time, CV_NORMAL);
\* CVode either reaches the target (CV_SUCCESS) or fails; of the failures the one
\* modelled makes no progress: the time returned in next_time is the time of the
\* call and the concentrations are as they were.
\* y0 was allocated with number_species entries (N_VNew_Serial(num_species)), so the
\* offsets at number_species .. rxn_offset_boundary - 1 lie outside the allocation:
\* what they hold after the integrator ran is any value.
Integrate ==
    /\ pc = "step"
    /\ current_time < end_time
    /\ \E result \in {"CV_SUCCESS", "CV_FAILURE"} :
          /\ flag' = result
          /\ next_time' = IF result = "CV_SUCCESS" THEN current_time + tau_step
                          ELSE current_time
          /\ \E c \in IF result = "CV_SUCCESS" THEN Advanced(y0)
                      ELSE {[s \in Species |-> y0[s]]},
                offsets \in [number_species .. rxn_offset_boundary - 1 -> OffsetValues] :
                y0' = [i \in PackedIndex |->
                          IF i < number_species THEN c[i] ELSE offsets[i]]
    /\ step_start' = y0
    /\ pc' = "reconcile"
    /\ UNCHANGED <<invocation, interrupted, simulationVars, current_time, traj,
                   current_state, tau_step, save_time, trajectoriesODE, writes,
                   out_of_range, interrupt_passed, resources, rng, unusedVars,
                   pureVars>>

\* The reconciliation loop's condition without its "false &&": the loop runs.
ReconcileConditionUnguarded(rxn_i) == rxn_i < rxn_offset_boundary

\* The condition of the reconciliation loop,
\*   for (int rxn_i = num_species; false && rxn_i < rxn_offset_boundary; ++rxn_i)
ReconcileCondition(rxn_i) == FALSE /\ rxn_i < rxn_offset_boundary

\* for (spec_i ...) { population_changes[spec_i] += species_change[spec_i];
\*                    if (current_state[spec_i] + population_changes[spec_i] < 0) break; }
\* row is model.reactions[rxn_i].species_change.
RECURSIVE FireOnce(_, _, _, _)
FireOnce(spec_i, population_changes, state, row) ==
    IF spec_i >= number_species THEN population_changes
    ELSE LET changes == [population_changes EXCEPT ![spec_i] = @ + row[spec_i]]
         IN IF state[spec_i] + changes[spec_i] < 0 THEN changes
            ELSE FireOnce(spec_i + 1, changes, state, row)

\* while (rxn_state >= 0) { fire once; rxn_state += log(uniform(rng)); }
\* draws are the values of log(uniform(rng)), in the order drawn: an offset is at
\* most MaxOffset and a draw at most -1, so MaxDraws of them end the loop. rest is
\* what is left of draws: the loop used the others.
RECURSIVE FiringLoop(_, _, _, _, _)
FiringLoop(rxn_state, population_changes, state, row, draws) ==
    IF rxn_state < 0 \/ draws = <<>>
    THEN [rxn_state |-> rxn_state, population_changes |-> population_changes,
          rest |-> draws]
    ELSE FiringLoop(Plus(rxn_state, Head(draws)),
                    FireOnce(0, population_changes, state, row),
                    state, row, Tail(draws))

\* model.reactions[rxn_i].species_change with rxn_i counted from num_species: a
\* reaction of the model when rxn_i < number_reactions, else whatever lies behind
\* the array (wild).
ReactionRow(rxn_i, wild) ==
    IF rxn_i < number_reactions
    THEN [s \in Species |-> species_change(rxn_i, s)]
    ELSE wild.row

\* rxn_offsets[rxn_i] is y0[num_species + rxn_i].
OffsetRead(y, rxn_i, wild) ==
    IF number_species + rxn_i \in DOMAIN y THEN y[number_species + rxn_i]
    ELSE wild.offset

\* The body of the reconciliation loop for rxn_i and the rest of the loop.
\* st = [state, y, next_time, tau_step, drawn]; drawn counts the values taken from rng.
RECURSIVE Reconcile(_, _, _, _)
Reconcile(rxn_i, st, draws, wild) ==
    IF ~ReconcileCondition(rxn_i) THEN st
    ELSE LET fired == FiringLoop(OffsetRead(st.y, rxn_i, wild),
                                 [s \in Species |-> 0], st.state,
                                 ReactionRow(rxn_i, wild), draws[rxn_i])
             used == [st EXCEPT !.drawn = @ + (Len(draws[rxn_i]) - Len(fired.rest))]
             after ==
                IF fired.rxn_state < 0
                THEN [used EXCEPT
                        !.state = [s \in Species |-> @[s] + fired.population_changes[s]],
                        !.y = IF number_species + rxn_i \in DOMAIN @
                              THEN [@ EXCEPT ![number_species + rxn_i] = fired.rxn_state]
                              ELSE @]
                ELSE \* next_time = current_time; tau_step *= 0.5; (not reached:
                     \* the firing loop ends only with rxn_state < 0)
                     [used EXCEPT !.next_time = current_time,
                                !.tau_step = @ \div 2]
         IN Reconcile(rxn_i + 1, after, draws, wild)

\* What a read behind an array may find.
WildReads ==
    [row : [Species -> -2 .. 2], offset : OffsetValues]

\* From the integrator's return to the emission loop: the reconciliation loop, then
\*   simulation->current_time = next_time;
ReconcileAndAdvance ==
    /\ pc = "reconcile"
    /\ IF ReconcileCondition(number_species)
       THEN \E draws \in [number_species .. rxn_offset_boundary - 1 ->
                             [1 .. MaxDraws -> LogValues]],
               wild \in WildReads :
               LET st == Reconcile(number_species,
                                   [state |-> current_state, y |-> y0,
                                    next_time |-> next_time, tau_step |-> tau_step,
                                    drawn |-> rng.drawn],
                                   draws, wild)
               IN /\ current_state' = st.state
                  /\ y0' = st.y
                  /\ next_time' = st.next_time
                  /\ tau_step' = st.tau_step
                  /\ rng' = [rng EXCEPT !.drawn = st.drawn]
       ELSE UNCHANGED <<current_state, y0, next_time, tau_step, rng>>
    /\ current_time' = next_time'
    /\ pc' = "emit"
    /\ step_start' = NoVector
    /\ interrupt_passed' = interrupted
    /\ UNCHANGED <<invocation, interrupted, simulationVars, traj, flag, save_time,
                   trajectoriesODE, writes, out_of_range, resources, unusedVars,
                   pureVars>>

\* One test of the emission loop and, if it holds, one turn of it:
\*   while (save_time <= next_time) {
\*     trajectoriesODE[traj][save_time][spec_i] = NV_Ith_S(y0, spec_i);  (each spec_i)
\*     save_time += increment; }
\* save_time is an int: the sum is truncated.
Emit ==
    /\ pc = "emit"
    /\ save_time * TimeResolution <= next_time
    /\ IF save_time < number_timesteps
       THEN /\ trajectoriesODE' = [trajectoriesODE EXCEPT ![traj][save_time] =
                                      [s \in Species |-> y0[s]]]
            /\ writes' = [writes EXCEPT ![traj][save_time] =
                             [s \in Species |-> CountUp(@[s])]]
            /\ UNCHANGED out_of_range
       ELSE /\ out_of_range' = TRUE
            /\ UNCHANGED <<trajectoriesODE, writes>>
    /\ save_time' = (save_time * TimeResolution + increment) \div TimeResolution
    /\ UNCHANGED <<pc, invocation, interrupted, simulationVars, current_time, traj,
                   current_state, y0, flag, next_time, tau_step, step_start,
                   interrupt_passed, resources, rng, unusedVars, pureVars>>

\* The emission loop ends; back to the head of the step loop.
EmitDone ==
    /\ pc = "emit"
    /\ ~(save_time * TimeResolution <= next_time)
    /\ pc' = "step"
    /\ UNCHANGED <<invocation, interrupted, simulationVars, current_time, traj,
                   current_state, y0, flag, next_time, tau_step, save_time,
                   trajectoriesODE, writes, out_of_range, step_start,
                   interrupt_passed, resources, rng, unusedVars, pureVars>>

\* The step loop ends (current_time >= end_time): clean up, next trajectory.
EndTrajectory ==
    /\ pc = "step"
    /\ ~(current_time < end_time)
    /\ resources' = CleanUp(resources)
    /\ traj' = traj + 1
    /\ pc' = "trajectory"
    /\ UNCHANGED <<invocation, interrupted, simulationVars, current_time,
                   current_state, y0, flag, next_time, tau_step, save_time,
                   trajectoriesODE, writes, out_of_range, step_start,
                   interrupt_passed, rng, unusedVars, pureVars>>

Next ==
    \/ Call
    \/ StartTrajectory
    \/ Integrate
    \/ ReconcileAndAdvance
    \/ Emit
    \/ EmitDone
    \/ EndTrajectory
    \/ Return
    \/ signalHandler

Spec == Init /\ [][Next]_vars

\* ---------------------------------------------------------------- f and the firing loop alone
\* The solver's variables, all but those of pureVars.
solverVars == <<pc, invocation, interrupted, simulationVars, current_time, traj,
                current_state, y0, flag, next_time, tau_step, save_time,
                trajectoriesODE, writes, out_of_range, step_start, interrupt_passed,
                resources, rng, unusedVars>>

\* The memory f is handed: concentrations, the reactions' offsets, and what lies
\* behind them.
PackedStates ==
    { [i \in MemIndex |-> IF i < number_species THEN c[i] ELSE o[i]] :
        c \in [Species -> 0 .. MaxConcentration],
        o \in [MemIndex \ Species -> OffsetValues] }

\* ydot as f finds it: its entries behind the species hold any value.
DerivativeCells ==
    { [i \in PackedIndex |-> IF i < number_species THEN 0 ELSE o[i]] :
        o \in [PackedIndex \ Species -> OffsetValues] }

\* Neither f nor the firing loop has been run yet.
NothingRun == f_in = NoCall /\ fire_in = NoCall

\* One call f(t, y, ydot, user_data): dydt[spec_i] is assigned for the species, the
\* other entries of ydot are left as they were.
RightHandSide ==
    /\ NothingRun
    /\ \E Y \in PackedStates, ydot \in DerivativeCells :
          LET out == f(Y)
          IN /\ f_in' = [Y |-> Y, ydot |-> ydot]
             /\ f_out' = [Y |-> out.Y,
                          ydot |-> [i \in PackedIndex |->
                                      IF i \in Species THEN out.dydt[i] ELSE ydot[i]]]
    /\ fire_in' = NoCall
    /\ fire_out' = NoCall
    /\ UNCHANGED solverVars

\* One run of the firing loop (lines 224-237) for reaction r, from rxn_state and
\* zeroed population_changes.
FiringLoopRun ==
    /\ NothingRun
    /\ \E r \in 0 .. number_reactions - 1, rxn_state \in 0 .. MaxOffset,
          state \in [Species -> 0 .. MaxConcentration],
          draws \in [1 .. MaxDraws -> LogValues] :
          /\ fire_in' = [rxn_i |-> r, rxn_state |-> rxn_state, state |-> state,
                         draws |-> draws]
          /\ fire_out' = FiringLoop(rxn_state, [s \in Species |-> 0], state,
                                    [s \in Species |-> species_change(r, s)], draws)
    /\ f_in' = NoCall
    /\ f_out' = NoCall
    /\ UNCHANGED solverVars

InitPure ==
    /\ InitSolver
    /\ number_reactions = Len(ReactionNames)

NextPure ==
    \/ RightHandSide
    \/ FiringLoopRun

PureSpec == InitPure /\ [][NextPure]_vars

\* ---------------------------------------------------------------- properties
Reactions == 0 .. number_reactions - 1

\* The offset of reaction r in the packed state: index number_species + r.
Offset(y, r) == y[number_species + r]

\* The driver is between the integrator's return and the emission loop, and takes
\* its step (a signal delivered there is no step of the driver).
DriverLeavesReconcile == pc = "reconcile" /\ pc' # "reconcile"

\* After the integration some reaction has fired (its offset is >= 0) and one firing
\* of it would take a population below zero.
RejectionDue ==
    \E r \in Reactions :
        /\ Offset(y0, r) >= 0
        /\ \E s \in Species : current_state[s] + species_change(r, s) < 0

\* Some reaction has fired and no pending firing takes a population below zero.
AcceptanceDue ==
    /\ \E r \in Reactions : Offset(y0, r) >= 0
    /\ ~RejectionDue

RECURSIVE FiredChange(_, _, _)
FiredChange(r, k, s) ==
    IF r >= number_reactions THEN 0
    ELSE k[r] * species_change(r, s) + FiredChange(r + 1, k, s)

\* C1: in every reachable state the tracked population current_state[s] of every
\* species is a non-negative integer.
C1_PopulationsNonNegative ==
    \A s \in Species : current_state[s] \in Nat

\* C1's case: a step went past the reconciliation with a firing pending that would
\* take a population below zero.
C1_Witness ==
    /\ pc = "emit"
    /\ flag = "CV_SUCCESS"
    /\ RejectionDue
    /\ \A s \in Species : current_state[s] >= 0

\* C2: a step whose reconciliation has to be rejected is undone: the packed state is
\* the one the step started from, tau_step is halved, current_time is unchanged, no
\* sample is emitted and the loop retries.
C2_RejectedStepIsRetried ==
    [][(DriverLeavesReconcile /\ RejectionDue) =>
          /\ y0' = step_start
          /\ 2 * tau_step' = tau_step
          /\ current_time' = current_time
          /\ trajectoriesODE' = trajectoriesODE
          /\ pc' = "step"]_vars

\* C3: when a firing of reaction r would take a population below zero, the rejection
\* is signalled to the driver (next_time falls back to current_time, tau_step
\* shrinks) and neither a population change nor a new offset is committed.
C3_RejectionSignalled ==
    [][(DriverLeavesReconcile /\ RejectionDue) =>
          /\ current_state' = current_state
          /\ \A r \in Reactions : Offset(y0', r) = Offset(y0, r)
          /\ next_time' = current_time
          /\ tau_step' < tau_step]_vars

\* C4: when the reconciliation is accepted, the populations change by k[r] times the
\* stoichiometry of each reaction r, k[r] >= 1 being the number of firings of a
\* reaction whose offset had reached 0 and k[r] = 0 for the others, and every
\* offset written back is negative.
C4_AcceptedFiringsCommitted ==
    [][(DriverLeavesReconcile /\ AcceptanceDue) =>
          /\ \E k \in [Reactions -> 0 .. MaxDraws] :
                /\ \A r \in Reactions : (k[r] >= 1) <=> (Offset(y0, r) >= 0)
                /\ \A s \in Species :
                      current_state'[s] = current_state[s] + FiredChange(0, k, s)
          /\ \A r \in Reactions : Offset(y0', r) < 0]_vars

\* C5: every trajectory starts its step loop with current_time = 0, tau_step =
\* increment and save_time = 0.
C5_TrajectoryStartsAtZero ==
    [][(pc = "trajectory" /\ pc' = "step") =>
          /\ current_time' = 0
          /\ tau_step' = increment
          /\ save_time' = 0]_vars

\* C6: when the solver returns, the cell [t][0][s] of every trajectory t that was
\* run holds the initial population of s.
C6_InitialCellKept ==
    pc = "returned" =>
        \A t \in 0 .. traj - 1 : \A s \in Species :
            trajectoriesODE[t][0][s] = initial_population(s)

\* C7: an uninterrupted run writes, for every trajectory, the cell of every timestep
\* k in [0, number_timesteps) and no cell outside that range.
C7_EveryGridPointWritten ==
    (pc = "returned" /\ ~interrupted) =>
        /\ ~out_of_range
        /\ \A t \in 0 .. number_trajectories - 1 :
              \A k \in 0 .. number_timesteps - 1 : \A s \in Species :
                  writes[t][k][s] >= 1

\* C8: no output cell is written a second time during an invocation.
C8_NoCellWrittenTwice ==
    \A t \in DOMAIN writes : \A k \in DOMAIN writes[t] : \A s \in Species :
        writes[t][k][s] <= 1

\* C9: the interrupt flag is checked between reconciliation and emission: a
\* trajectory whose step passed that point with the flag set takes no further
\* integration step.
C9_NoStepAfterInterrupt ==
    [][(interrupt_passed /\ flag = "CV_SUCCESS") =>
          ~(pc = "step" /\ pc' = "reconcile")]_vars

\* C10: the interrupt flag is clear when the solver returns.
C10_FlagClearedOnReturn ==
    [][(pc = "trajectory" /\ pc' = "returned") => ~interrupted']_vars

C12_FailureAbortsTrajectory ==
    [][(flag = "CV_FAILURE" /\ pc' # pc) =>
          /\ pc' \notin {"emit", "reconcile"}
          /\ current_time' = current_time
          /\ trajectoriesODE' = trajectoriesODE
          /\ writes' = writes]_vars

RECURSIVE SignedPropensitySum(_, _, _)
SignedPropensitySum(r, s, concentrations) ==
    IF r >= number_reactions THEN 0
    ELSE ODEEvaluate(r, concentrations) * Sign(species_change(r, s))
         + SignedPropensitySum(r + 1, s, concentrations)

\* C14: after a call of f on a packed state Y, the derivative's entry for the offset
\* of every reaction r is the propensity a_r of the concentrations in Y, and its
\* entry for every species s is the sum of a_r * sign(nu_r,s) over the reactions.
C14_DerivativeOfPackedState ==
    f_out # NoCall =>
        LET concentrations == [s \in Species |-> f_in.Y[s]]
        IN /\ \A r \in Reactions :
                 f_out.ydot[number_species + r] = ODEEvaluate(r, concentrations)
           /\ \A s \in Species :
                 f_out.ydot[s] = SignedPropensitySum(0, s, concentrations)

\* The length y0 is created with: N_VNew_Serial(num_species).
VectorLength == number_species

\* C15: the packed state is one vector of number_species + number_reactions
\* entries, and every entry the solver reads or writes through it has an index
\* inside the vector.
C15_PackedStateWithinVector ==
    y0 # NoVector =>
        /\ VectorLength = number_species + number_reactions
        /\ \A i \in DOMAIN y0 : i < VectorLength

\* c . x over the species from s on.
RECURSIVE Dot(_, _, _)
Dot(s, c, x) ==
    IF s >= number_species THEN 0 ELSE c[s] * x[s] + Dot(s + 1, c, x)

\* The integer weight vectors c, not all zero, with c . nu_r = 0 for every reaction.
ConservationLaws ==
    { c \in [Species -> -MaxWeight .. MaxWeight] :
        /\ \E s \in Species : c[s] # 0
        /\ \A r \in Reactions :
              Dot(0, c, [s \in Species |-> species_change(r, s)]) = 0 }

\* C16: for every conservation law c, c . x is conserved along a trajectory: the
\* concentrations follow dx/dt = dydt between firings, so the derivative f gives
\* has c . dydt = 0 (for 2A <-> B: A + 2B stays what it was).
C16_ConservationLawsKept ==
    f_out # NoCall =>
        \A c \in ConservationLaws : Dot(0, c, f_out.ydot) = 0

\* C17: the random stream of a run is determined by random_seed: while the solver
\* runs with a non-zero random_seed, the engine its draws come from is the one
\* seeded with random_seed (so two runs with the same seed draw the same values).
C17_EngineSeededFromRandomSeed ==
    (pc \notin {"idle", "returned"} /\ random_seed # 0) => rng.seed = random_seed

\* C18: when an uninterrupted run has returned, every cell of trajectoriesHYBRID
\* holds a mode label, CONTINUOUS or DISCRETE, and the label of a species whose
\* user_mode is CONTINUOUS or DISCRETE is that mode at every timestep.
C18_ModeLabelsRecorded ==
    (pc = "returned" /\ ~interrupted) =>
        \A t \in 0 .. number_trajectories - 1 :
            \A k \in 0 .. number_timesteps - 1 : \A s \in Species :
                /\ trajectoriesHYBRID[t][k][s] \in {CONTINUOUS, DISCRETE}
                /\ user_mode(s) # DYNAMIC => trajectoriesHYBRID[t][k][s] = user_mode(s)

\* The draws a run of the firing loop took from rng.
UsedDraws == 1 .. (Len(fire_in.draws) - Len(fire_out.rest))

\* C19: the firing loop terminates: every draw U it takes lies strictly inside
\* (0, 1), so every increment ln(U) is finite and strictly negative, and the loop
\* ends with the offset below 0.
C19_FiringLoopEndsOnFiniteDraws ==
    fire_out # NoCall =>
        /\ \A i \in UsedDraws :
              fire_in.draws[i] # NegInf /\ fire_in.draws[i] < 0
        /\ fire_out.rxn_state < 0

\* C20: the emission loop of every step terminates, whatever the spacing: next_time
\* does not change inside the loop and the loop is left only when save_time has
\* passed it, so every turn of the loop moves save_time forward.
C20_EmissionLoopAdvances ==
    [][(pc = "emit" /\ pc' = "emit" /\ interrupted' = interrupted) =>
          save_time' > save_time]_vars

\* C21: a call of f writes only entries of the derivative vector: the memory it is
\* handed at Y, the packed state of concentrations and offsets and what lies
\* behind it, is after the call what it was before.
C21_InputStateUnchanged ==
    f_out # NoCall => f_out.Y = f_in.Y
====
